---- MODULE Spec2Model ----
(***************************************************************************)
(* Model of the Company and Job entity managers of Express-Jobly:          *)
(* src/models/company.js (Company, followed by the Job test suite) and     *)
(* src/unnamed/part_000 (Job).  The store is the relational database the   *)
(* managers talk to through db.query; every statement is atomic there.     *)
(***************************************************************************)
EXTENDS Integers, Sequences, FiniteSets

VARIABLES
  companies,  \* the companies table: handle -> row
  jobs,       \* the jobs table: id -> row
  nextId,     \* the serial counter behind jobs.id
  last,       \* the outcome of the latest handler that ran to completion
  calls,      \* the handler each concurrent caller is in, with its locals
  removed     \* history: the keys removed and not created again since

vars == <<companies, jobs, nextId, last, calls, removed>>

(* Bounds of the model. *)
MaxJobId == 1
MaxNum == 2

(***************************************************************************)
(* JavaScript values.  Every value carries its type tag; strings are       *)
(* sequences of one-character strings so that templates and ILIKE can be   *)
(* computed.                                                               *)
(***************************************************************************)
Undefined == [t |-> "undefined", n |-> 0, s |-> <<>>]

Null == [t |-> "null", n |-> 0, s |-> <<>>]

Num(k) == [t |-> "number", n |-> k, s |-> <<>>]

Str(cs) == [t |-> "string", n |-> 0, s |-> cs]

Bool(b) == [t |-> "boolean", n |-> IF b THEN 1 ELSE 0, s |-> <<>>]

(* obj.key / destructuring: a key the object lacks reads as undefined. *)
Get(obj, k) == IF k \in DOMAIN obj THEN obj[k] ELSE Undefined

(* if (v): JavaScript truthiness. *)
Truthy(v) ==
  CASE v.t = "undefined" -> FALSE
    [] v.t = "null" -> FALSE
    [] v.t = "number" -> v.n # 0
    [] v.t = "string" -> v.s # <<>>
    [] v.t = "boolean" -> v.n = 1

(* a > b on undefined, null, booleans and numbers: undefined is NaN and   *)
(* compares false, null is 0.                                              *)
JsGt(a, b) ==
  /\ a.t # "undefined"
  /\ b.t # "undefined"
  /\ a.n > b.n

Digits == <<"0", "1", "2", "3", "4", "5", "6", "7", "8", "9">>

RECURSIVE NumToStr(_)
NumToStr(k) ==
  IF k < 10 THEN <<Digits[k + 1]>>
  ELSE NumToStr(k \div 10) \o <<Digits[(k % 10) + 1]>>

(* `${v}`: the string a template interpolates. *)
TemplateString(v) ==
  CASE v.t = "string" -> v.s
    [] v.t = "number" -> NumToStr(v.n)
    [] v.t = "null" -> <<"n", "u", "l", "l">>
    [] v.t = "undefined" -> <<"u", "n", "d", "e", "f", "i", "n", "e", "d">>
    [] v.t = "boolean" ->
         IF v.n = 1 THEN <<"t", "r", "u", "e">> ELSE <<"f", "a", "l", "s", "e">>

(* `%${v}%` *)
Wrap(v) == Str(<<"%">> \o TemplateString(v) \o <<"%">>)

(***************************************************************************)
(* The store's side of the SQL text the managers send.                     *)
(***************************************************************************)
LowerChar(c) ==
  CASE c = "A" -> "a"
    [] c = "B" -> "b"
    [] c = "C" -> "c"
    [] c = "T" -> "t"
    [] OTHER -> c

Lower(cs) == [i \in 1..Len(cs) |-> LowerChar(cs[i])]

(* LIKE: % matches any run of characters, _ any one character. *)
RECURSIVE Like(_, _)
Like(x, p) ==
  IF p = <<>> THEN x = <<>>
  ELSE IF Head(p) = "%"
    THEN Like(x, Tail(p)) \/ (x # <<>> /\ Like(Tail(x), p))
    ELSE /\ x # <<>>
         /\ (Head(p) = "_" \/ Head(p) = Head(x))
         /\ Like(Tail(x), Tail(p))

ILike(x, p) == Like(Lower(x), Lower(p))

(* One element of whereExpressions: column, comparison and the number of  *)
(* its $n placeholder (0 when the text holds none).                        *)
Pred(col, op, ph) == [col |-> col, op |-> op, ph |-> ph]

(* Whether a row satisfies one predicate under the bound parameters; a    *)
(* comparison with NULL is unknown and filters the row out.                *)
EvalPred(row, p, params) ==
  LET c == row[p.col]
      v == IF p.ph > 0 THEN params[p.ph] ELSE Num(0)
  IN /\ c.t # "null"
     /\ v.t # "null"
     /\ v.t # "undefined"
     /\ CASE p.op = "=" -> c = v
          [] p.op = ">=" -> c.n >= v.n
          [] p.op = "<=" -> c.n <= v.n
          [] p.op = ">" -> c.n > v.n
          [] p.op = "ILIKE" -> ILike(c.s, v.s)

(* WHERE e1 AND e2 AND ...; no WHERE clause keeps every row. *)
EvalWhere(row, where, params) ==
  \A i \in 1..Len(where) : EvalPred(row, where[i], params)

Code(c) ==
  CASE c = "%" -> 37
    [] c = "1" -> 49
    [] c = "2" -> 50
    [] c = "A" -> 65
    [] c = "B" -> 66
    [] c = "C" -> 67
    [] c = "T" -> 84
    [] c = "_" -> 95
    [] c = "a" -> 97
    [] c = "b" -> 98
    [] c = "c" -> 99
    [] c = "t" -> 116
    [] OTHER -> 0

(* x <= y in the order ORDER BY sorts text. *)
RECURSIVE StrLeq(_, _)
StrLeq(x, y) ==
  IF x = <<>> THEN TRUE
  ELSE IF y = <<>> THEN FALSE
  ELSE IF Head(x) = Head(y) THEN StrLeq(Tail(x), Tail(y))
  ELSE Code(Head(x)) < Code(Head(y))

(* ORDER BY col: every listing of the rows that is sorted on col (the     *)
(* store orders ties as it likes).                                         *)
OrderBy(rows, col) ==
  {q \in [1..Cardinality(rows) -> rows] :
     /\ \A i, j \in DOMAIN q : i # j => q[i] # q[j]
     /\ \A i, j \in DOMAIN q : i < j => StrLeq(q[i][col].s, q[j][col].s)}

(***************************************************************************)
(* Rows.  A stored row maps column names to values; the public row is what *)
(* the RETURNING / SELECT list of the statement names.                     *)
(***************************************************************************)
CompanyRow(handle, name, description, numEmployees, logoUrl) ==
  [handle |-> handle, name |-> name, description |-> description,
   num_employees |-> numEmployees, logo_url |-> logoUrl]

CompanyPublic(r) ==
  [handle |-> r.handle, name |-> r.name, description |-> r.description,
   numEmployees |-> r.num_employees, logoUrl |-> r.logo_url]

JobRow(id, title, salary, equity, companyHandle) ==
  [id |-> Num(id), title |-> title, salary |-> salary, equity |-> equity,
   company_handle |-> companyHandle]

JobPublic(r) ==
  [id |-> r.id, title |-> r.title, salary |-> r.salary, equity |-> r.equity,
   companyHandle |-> r.company_handle]

Rows(table) == {table[k] : k \in DOMAIN table}

(* SELECT ... FROM table WHERE ...: the rows that satisfy the clause. *)
SelectRows(table, where, params) ==
  {r \in Rows(table) : EvalWhere(r, where, params)}

(* One call of db.query: the statement and the parameter array. *)
Query(verb, table, where, params) ==
  [verb |-> verb, table |-> table, hasWhere |-> Len(where) > 0,
   where |-> where, params |-> params]

(* What a handler call came to: its error kind ("none" when it returned), *)
(* the statements it issued in order, and the value it returned.           *)
Outcome(op, arg, err, queries, res) ==
  [op |-> op, arg |-> arg, err |-> err, queries |-> queries, res |-> res]

(***************************************************************************)
(* Filter-query builders of Company.findAll and Job.findAll.               *)
(***************************************************************************)
EmptyQuery == [queryValues |-> <<>>, whereExpressions |-> <<>>]

PushPred_OffByOne(q, value, col, op) ==
  [queryValues |-> Append(q.queryValues, value),
   whereExpressions |->
     Append(q.whereExpressions, Pred(col, op, Len(q.queryValues)))]

(* queryValues.push(value); whereExpressions.push(`col op $${queryValues.length}`) *)
PushPred(q, value, col, op) ==
  [queryValues |-> Append(q.queryValues, value),
   whereExpressions |->
     Append(q.whereExpressions, Pred(col, op, Len(q.queryValues) + 1))]

CompanyRangeError_Geq(searchFilters) ==
  LET minEmployees == Get(searchFilters, "minEmployees")
      maxEmployees == Get(searchFilters, "maxEmployees")
  IN minEmployees.t # "undefined" /\ maxEmployees.t # "undefined"
     /\ minEmployees.n >= maxEmployees.n

(* if (minEmployees > maxEmployees) throw new BadRequestError(...) *)
CompanyRangeError(searchFilters) ==
  JsGt(Get(searchFilters, "minEmployees"), Get(searchFilters, "maxEmployees"))

CompanyFilterQuery(searchFilters) ==
  LET minEmployees == Get(searchFilters, "minEmployees")
      maxEmployees == Get(searchFilters, "maxEmployees")
      name == Get(searchFilters, "name")
      q1 == IF minEmployees # Undefined
            THEN PushPred(EmptyQuery, minEmployees, "num_employees", ">=")
            ELSE EmptyQuery
      q2 == IF maxEmployees # Undefined
            THEN PushPred(q1, maxEmployees, "num_employees", "<=")
            ELSE q1
  IN IF Truthy(name) THEN PushPred(q2, Wrap(name), "name", "ILIKE") ELSE q2

JobFilterQuery_Truthy(searchFilters) ==
  LET title == Get(searchFilters, "title")
      minSalary == Get(searchFilters, "minSalary")
      hasEquity == Get(searchFilters, "hasEquity")
      q1 == IF title # Undefined
            THEN PushPred(EmptyQuery, Wrap(title), "title", "ILIKE")
            ELSE EmptyQuery
      q2 == IF minSalary # Undefined
            THEN PushPred(q1, minSalary, "salary", ">=")
            ELSE q1
  IN IF Truthy(hasEquity)
     THEN [q2 EXCEPT !.whereExpressions = Append(@, Pred("equity", ">", 0))]
     ELSE q2

JobFilterQuery(searchFilters) ==
  LET title == Get(searchFilters, "title")
      minSalary == Get(searchFilters, "minSalary")
      hasEquity == Get(searchFilters, "hasEquity")
      q1 == IF title # Undefined
            THEN PushPred(EmptyQuery, Wrap(title), "title", "ILIKE")
            ELSE EmptyQuery
      q2 == IF minSalary # Undefined
            THEN PushPred(q1, minSalary, "salary", ">=")
            ELSE q1
  IN IF hasEquity = Bool(TRUE)
     THEN [q2 EXCEPT !.whereExpressions = Append(@, Pred("equity", ">", 0))]
     ELSE q2

(* Company.findAll(searchFilters) *)
CompanyFindAll(searchFilters) ==
  /\ UNCHANGED <<companies, jobs, nextId, calls, removed>>
  /\ IF CompanyRangeError(searchFilters)
     THEN last' = Outcome("Company.findAll", searchFilters, "BadRequest", <<>>, <<>>)
     ELSE LET q == CompanyFilterQuery(searchFilters)
              found == {CompanyPublic(r) :
                          r \in SelectRows(companies, q.whereExpressions, q.queryValues)}
          IN \E rows \in OrderBy(found, "name") :
               last' = Outcome("Company.findAll", searchFilters, "none",
                               <<Query("SELECT", "companies", q.whereExpressions,
                                       q.queryValues)>>,
                               rows)

(* c.name of the LEFT JOIN: the company's name, NULL when no company matches. *)
JoinedName(r) ==
  IF r.company_handle.t = "string" /\ r.company_handle.s \in DOMAIN companies
  THEN companies[r.company_handle.s].name
  ELSE Null

(* Job.findAll(searchFilters) *)
JobFindAll(searchFilters) ==
  /\ UNCHANGED <<companies, jobs, nextId, calls, removed>>
  /\ LET q == JobFilterQuery(searchFilters)
         found == {[id |-> r.id, title |-> r.title, salary |-> r.salary,
                    equity |-> r.equity, companyHandle |-> r.company_handle,
                    name |-> JoinedName(r)] :
                     r \in SelectRows(jobs, q.whereExpressions, q.queryValues)}
     IN \E rows \in OrderBy(found, "title") :
          last' = Outcome("Job.findAll", searchFilters, "none",
                          <<Query("SELECT", "jobs", q.whereExpressions, q.queryValues)>>,
                          rows)

(***************************************************************************)
(* Inputs.                                                                 *)
(***************************************************************************)
(* Every object whose keys are among `keys`, the key k holding a value of V(k). *)
Objects(keys, V(_)) ==
  UNION {{f \in [K -> UNION {V(k) : k \in keys}] : \A k \in K : f[k] \in V(k)} :
           K \in SUBSET keys}

Nums == {Num(k) : k \in 0..MaxNum}

c1 == <<"c", "1">>

c2 == <<"c", "2">>

Handles == {c1, c2}

CompanyFilterValues(k) ==
  CASE k = "minEmployees" -> Nums \cup {Null}
    [] k = "maxEmployees" -> Nums \cup {Null}
    [] k = "name" -> {Null, Str(<<>>), Str(<<"c">>)}

CompanyFilters == Objects({"minEmployees", "maxEmployees", "name"}, CompanyFilterValues)

JobFilterValues(k) ==
  CASE k = "title" -> {Null, Str(<<>>), Str(<<"T">>)}
    [] k = "minSalary" -> Nums \cup {Null}
    [] k = "hasEquity" ->
         {Bool(TRUE), Bool(FALSE), Null, Str(<<"t", "r", "u", "e">>), Num(1)}

JobFilters == Objects({"title", "minSalary", "hasEquity"}, JobFilterValues)

Procs == {"p1", "p2"}

Idle ==
  [op |-> "idle", pc |-> "idle", arg |-> Undefined, local |-> {}, err |-> "none",
   queries |-> <<>>, res |-> Undefined]

EmptyTable == [k \in {} |-> Null]

NoCall == Outcome("none", Undefined, "none", <<>>, Undefined)

(* The rows the test suite starts from. *)
FixtureCompanies ==
  [h \in Handles |->
     IF h = c1 THEN CompanyRow(Str(c1), Str(<<"C", "1">>), Str(<<"D">>), Num(1), Null)
     ELSE CompanyRow(Str(c2), Str(<<"C", "2">>), Str(<<"D">>), Num(2), Null)]

FixtureJob(id, shape) ==
  CASE shape = 1 -> JobRow(id, Str(<<"t", "1">>), Num(1), Num(10), Str(c1))
    [] shape = 2 -> JobRow(id, Str(<<"T", "2">>), Num(2), Num(0), Str(c2))
    [] shape = 3 -> JobRow(id, Str(<<"t", "1">>), Null, Null, Str(c1))

FixtureJobs ==
  UNION {{[id \in 1..k |-> FixtureJob(id, f[id])] : f \in [1..k -> 1..3]} :
           k \in 0..MaxJobId + 1}

(***************************************************************************)
(* The filter-query builders over a populated store.                       *)
(***************************************************************************)
InitFind ==
  /\ companies = FixtureCompanies
  /\ jobs \in FixtureJobs
  /\ nextId = Cardinality(DOMAIN jobs) + 1
  /\ last = NoCall
  /\ calls = [p \in Procs |-> Idle]
  /\ removed = {}

NextFind ==
  \/ \E f \in CompanyFilters : CompanyFindAll(f)
  \/ \E f \in JobFilters : JobFindAll(f)

SpecFind == InitFind /\ [][NextFind]_vars

(***************************************************************************)
(* The store's side of INSERT, UPDATE and DELETE.                          *)
(***************************************************************************)
Insert(table, key, row) ==
  [k \in DOMAIN table \cup {key} |-> IF k = key THEN row ELSE table[k]]

Delete(table, keys) == [k \in DOMAIN table \ keys |-> table[k]]

(* The driver sends undefined as NULL. *)
SqlValue(v) == IF v = Undefined THEN Null ELSE v

(* Every listing of the rows: a SELECT without ORDER BY. *)
AnyOrder(rows) ==
  {q \in [1..Cardinality(rows) -> rows] : \A i, j \in DOMAIN q : i # j => q[i] # q[j]}

(* Whether a job row names a stored company. *)
References(row) ==
  row.company_handle.t = "string" /\ row.company_handle.s \in DOMAIN companies

Referenced(handle) == \E j \in Rows(jobs) : j.company_handle = handle

(* jobs.company_handle is a required foreign key to companies: the store  *)
(* refuses a job row that names no stored company.                         *)
JobWriteOk(row) == References(row)

UpdateQuery(table, set, where, params) ==
  [verb |-> "UPDATE", table |-> table, set |-> set, hasWhere |-> Len(where) > 0,
   where |-> where, params |-> params]

(* SET "c1"=$1, "c2"=$2, ... applied to one row. *)
ApplySet(row, set, params) ==
  [c \in DOMAIN row |->
     IF \E i \in 1..Len(set) : set[i].col = c
     THEN SqlValue(params[(CHOOSE i \in 1..Len(set) : set[i].col = c)])
     ELSE row[c]]

(* The statement names a column the table lacks, or one column twice. *)
BadSet(set, columns) ==
  \/ \E i \in 1..Len(set) : set[i].col \notin columns
  \/ \E i, j \in 1..Len(set) : i # j /\ set[i].col = set[j].col

(***************************************************************************)
(* sqlForPartialUpdate(dataToUpdate, jsToSql) of helpers/sql.  The data    *)
(* object is the sequence of its <<key, value>> pairs in key order.        *)
(***************************************************************************)
SqlForPartialUpdate(dataToUpdate, jsToSql) ==
  [empty |-> Len(dataToUpdate) = 0,
   setCols |-> [i \in 1..Len(dataToUpdate) |->
                  [col |-> IF dataToUpdate[i][1] \in DOMAIN jsToSql
                           THEN jsToSql[dataToUpdate[i][1]]
                           ELSE dataToUpdate[i][1],
                   ph |-> i]],
   values |-> [i \in 1..Len(dataToUpdate) |-> dataToUpdate[i][2]]]

CompanyJsToSql == [numEmployees |-> "num_employees", logoUrl |-> "logo_url"]

JobJsToSql == [k \in {} |-> ""]

(***************************************************************************)
(* Company                                                                 *)
(***************************************************************************)
ByHandle(handle) == Query("SELECT", "companies", <<Pred("handle", "=", 1)>>, <<handle>>)

DuplicateCheck_None(handle) == {}

(* SELECT handle FROM companies WHERE handle = $1 *)
DuplicateCheck(handle) ==
  SelectRows(companies, ByHandle(handle).where, ByHandle(handle).params)

CompanyInsertQuery(data) ==
  Query("INSERT", "companies", <<>>,
        <<Get(data, "handle"), Get(data, "name"), Get(data, "description"),
          Get(data, "numEmployees"), Get(data, "logoUrl")>>)

CompanyInsertRow(data) ==
  LET v == CompanyInsertQuery(data).params
  IN CompanyRow(SqlValue(v[1]), SqlValue(v[2]), SqlValue(v[3]), SqlValue(v[4]),
                SqlValue(v[5]))

(* The primary key admits the row. *)
CompanyInsertOk(row) == row.handle.t = "string" /\ row.handle.s \notin DOMAIN companies

(* Company.create(data) *)
CompanyCreate(data) ==
  LET handle == Get(data, "handle")
      row == CompanyInsertRow(data)
  IN /\ UNCHANGED <<jobs, nextId, calls>>
     /\ removed' = IF DuplicateCheck(handle) = {} /\ CompanyInsertOk(row)
                   THEN removed \ {handle} ELSE removed
     /\ IF DuplicateCheck(handle) # {}
        THEN /\ companies' = companies
             /\ last' = Outcome("Company.create", data, "BadRequest",
                                <<ByHandle(handle)>>, Undefined)
        ELSE IF CompanyInsertOk(row)
        THEN /\ companies' = Insert(companies, row.handle.s, row)
             /\ last' = Outcome("Company.create", data, "none",
                                <<ByHandle(handle), CompanyInsertQuery(data)>>,
                                CompanyPublic(row))
        ELSE /\ companies' = companies
             /\ last' = Outcome("Company.create", data, "StoreError",
                                <<ByHandle(handle), CompanyInsertQuery(data)>>, Undefined)

JobsOfQuery(handle) ==
  Query("SELECT", "jobs", <<Pred("company_handle", "=", 1)>>, <<handle>>)

(* SELECT id, title, salary, equity FROM jobs WHERE company_handle = $1 *)
JobsOf(handle) ==
  AnyOrder({[id |-> j.id, title |-> j.title, salary |-> j.salary, equity |-> j.equity] :
              j \in SelectRows(jobs, JobsOfQuery(handle).where, JobsOfQuery(handle).params)})

WithJobs(company, jobsRes) ==
  [handle |-> company.handle, name |-> company.name,
   description |-> company.description, numEmployees |-> company.numEmployees,
   logoUrl |-> company.logoUrl, jobs |-> jobsRes]

(* Company.get(handle) *)
CompanyGet(handle) ==
  LET companyRes == SelectRows(companies, ByHandle(handle).where, ByHandle(handle).params)
  IN /\ UNCHANGED <<companies, jobs, nextId, calls, removed>>
     /\ IF companyRes = {}
        THEN last' = Outcome("Company.get", handle, "NotFound", <<ByHandle(handle)>>,
                             Undefined)
        ELSE \E r \in companyRes : \E jobsRes \in JobsOf(CompanyPublic(r).handle) :
               last' = Outcome("Company.get", handle, "none",
                               <<ByHandle(handle), JobsOfQuery(CompanyPublic(r).handle)>>,
                               WithJobs(CompanyPublic(r), jobsRes))

(* Company.update(handle, data) *)
CompanyUpdate(handle, data) ==
  LET u == SqlForPartialUpdate(data, CompanyJsToSql)
      handleVarIdx == Len(u.values) + 1
      q == UpdateQuery("companies", u.setCols, <<Pred("handle", "=", handleVarIdx)>>,
                       u.values \o <<handle>>)
      hit == SelectRows(companies, q.where, q.params)
  IN /\ UNCHANGED <<jobs, nextId, calls, removed>>
     /\ IF u.empty
        THEN /\ companies' = companies
             /\ last' = Outcome("Company.update", <<handle, data>>, "BadRequest", <<>>,
                                Undefined)
        ELSE IF BadSet(q.set, {"handle", "name", "description", "num_employees", "logo_url"})
        THEN /\ companies' = companies
             /\ last' = Outcome("Company.update", <<handle, data>>, "StoreError", <<q>>,
                                Undefined)
        ELSE IF hit = {}
        THEN /\ companies' = companies
             /\ last' = Outcome("Company.update", <<handle, data>>, "NotFound", <<q>>,
                                Undefined)
        ELSE \E r \in hit :
               LET new == ApplySet(r, q.set, q.params)
                   ok == new.handle = r.handle
                           \/ (CompanyInsertOk(new) /\ ~Referenced(r.handle))
               IN   IF ok
                    THEN /\ companies' = Insert(Delete(companies, {r.handle.s}),
                                                new.handle.s, new)
                         /\ last' = Outcome("Company.update", <<handle, data>>, "none",
                                            <<q>>, CompanyPublic(new))
                    ELSE /\ companies' = companies
                         /\ last' = Outcome("Company.update", <<handle, data>>,
                                            "StoreError", <<q>>, Undefined)

DeleteQuery(table, col, key) == Query("DELETE", table, <<Pred(col, "=", 1)>>, <<key>>)

(* Company.remove(handle); the company's jobs go with it. *)
CompanyRemove(handle) ==
  LET q == DeleteQuery("companies", "handle", handle)
      hit == SelectRows(companies, q.where, q.params)
  IN /\ UNCHANGED <<nextId, calls>>
     /\ IF hit = {}
        THEN /\ UNCHANGED <<companies, jobs, removed>>
             /\ last' = Outcome("Company.remove", handle, "NotFound", <<q>>, Undefined)
        ELSE /\ companies' = Delete(companies, {r.handle.s : r \in hit})
             /\ jobs' = Delete(jobs, {k \in DOMAIN jobs : jobs[k].company_handle = handle})
             /\ removed' = removed \cup {handle}
             /\ last' = Outcome("Company.remove", handle, "none", <<q>>, Undefined)

(***************************************************************************)
(* Job                                                                     *)
(***************************************************************************)
JobInsertQuery(data) ==
  Query("INSERT", "jobs", <<>>,
        <<Get(data, "title"), Get(data, "salary"), Get(data, "equity"),
          Get(data, "company_handle")>>)

JobInsertRow(id, data) ==
  LET v == JobInsertQuery(data).params
  IN JobRow(id, SqlValue(v[1]), SqlValue(v[2]), SqlValue(v[3]), SqlValue(v[4]))

(* The primary key and the foreign key admit the row. *)
JobInsertOk(row) == row.id.n \notin DOMAIN jobs /\ JobWriteOk(row)

(* Job.create(data); the id comes from the table's serial counter. *)
JobCreate(data) ==
  LET row == JobInsertRow(nextId, data)
  IN /\ nextId <= MaxJobId
     /\ nextId' = nextId + 1
     /\ UNCHANGED <<companies, calls>>
     /\ removed' = IF JobInsertOk(row) THEN removed \ {row.id} ELSE removed
     /\ IF JobInsertOk(row)
          THEN /\ jobs' = Insert(jobs, nextId, row)
               /\ last' = Outcome("Job.create", data, "none", <<JobInsertQuery(data)>>,
                                  JobPublic(row))
          ELSE /\ jobs' = jobs
               /\ last' = Outcome("Job.create", data, "StoreError",
                                  <<JobInsertQuery(data)>>, Undefined)

ById(id) == Query("SELECT", "jobs", <<Pred("id", "=", 1)>>, <<id>>)

(* SELECT handle, name, ... FROM companies WHERE handle = $1; rows[0] *)
CompanyOf(companyHandle) ==
  LET rows == SelectRows(companies, ByHandle(companyHandle).where,
                         ByHandle(companyHandle).params)
  IN IF rows = {} THEN {Undefined} ELSE {CompanyPublic(r) : r \in rows}

(* delete job.companyHandle; job.company = companyResults.rows[0] *)
WithCompany(job, company) ==
  [id |-> job.id, title |-> job.title, salary |-> job.salary, equity |-> job.equity,
   company |-> company]

(* Job.get(id) *)
JobGet(id) ==
  LET jobResults == SelectRows(jobs, ById(id).where, ById(id).params)
  IN /\ UNCHANGED <<companies, jobs, nextId, calls, removed>>
     /\ IF jobResults = {}
        THEN last' = Outcome("Job.get", id, "NotFound", <<ById(id)>>, Undefined)
        ELSE \E r \in jobResults : \E company \in CompanyOf(JobPublic(r).companyHandle) :
               last' = Outcome("Job.get", id, "none",
                               <<ById(id), ByHandle(JobPublic(r).companyHandle)>>,
                               WithCompany(JobPublic(r), company))

(* Job.update(id, data) *)
JobUpdate(id, data) ==
  LET u == SqlForPartialUpdate(data, JobJsToSql)
      idIdx == Len(u.values) + 1
      q == UpdateQuery("jobs", u.setCols, <<Pred("id", "=", idIdx)>>, u.values \o <<id>>)
      hit == SelectRows(jobs, q.where, q.params)
  IN /\ UNCHANGED <<companies, nextId, calls, removed>>
     /\ IF u.empty
        THEN /\ jobs' = jobs
             /\ last' = Outcome("Job.update", <<id, data>>, "BadRequest", <<>>, Undefined)
        ELSE IF BadSet(q.set, {"id", "title", "salary", "equity", "company_handle"})
        THEN /\ jobs' = jobs
             /\ last' = Outcome("Job.update", <<id, data>>, "StoreError", <<q>>, Undefined)
        ELSE IF hit = {}
        THEN /\ jobs' = jobs
             /\ last' = Outcome("Job.update", <<id, data>>, "NotFound", <<q>>, Undefined)
        ELSE \E r \in hit :
               LET new == ApplySet(r, q.set, q.params)
                   ok == /\ new.id = r.id
                            \/ (new.id.t = "number" /\ new.id.n \notin DOMAIN jobs)
                         /\ JobWriteOk(new)
               IN   IF ok
                    THEN /\ jobs' = Insert(Delete(jobs, {r.id.n}), new.id.n, new)
                         /\ last' = Outcome("Job.update", <<id, data>>, "none", <<q>>,
                                            JobPublic(new))
                    ELSE /\ jobs' = jobs
                         /\ last' = Outcome("Job.update", <<id, data>>, "StoreError",
                                            <<q>>, Undefined)

(* Job.remove(id) *)
JobRemove(id) ==
  LET q == DeleteQuery("jobs", "id", id)
      hit == SelectRows(jobs, q.where, q.params)
  IN /\ UNCHANGED <<companies, nextId, calls>>
     /\ IF hit = {}
        THEN /\ UNCHANGED <<jobs, removed>>
             /\ last' = Outcome("Job.remove", id, "NotFound", <<q>>, Undefined)
        ELSE /\ jobs' = Delete(jobs, {r.id.n : r \in hit})
             /\ removed' = removed \cup {id}
             /\ last' = Outcome("Job.remove", id, "none", <<q>>, Undefined)

(***************************************************************************)
(* Inputs of the handlers and the sequential specification: one handler    *)
(* runs to completion before the next starts.                              *)
(***************************************************************************)
CompanyDatas ==
  {[handle |-> Str(h), name |-> Str(<<"C">>), description |-> Str(<<"D">>),
    numEmployees |-> Num(1), logoUrl |-> Null] : h \in Handles}

(* The documented shape { title, salary, equity, companyHandle } and the  *)
(* shape the test suite passes.                                            *)
JobDatas ==
  {[title |-> Str(<<"t", "1">>), salary |-> Num(1), equity |-> Num(10),
    companyHandle |-> Str(c1)]}
  \cup {[title |-> Str(<<"t", "1">>), salary |-> Num(1), equity |-> Num(10),
         company_handle |-> Str(h)] : h \in Handles}

(* The ids the serial counter hands out, and one it never does. *)
IdKeys == {Num(k) : k \in 1..MaxJobId + 1}

CompanyUpdateDatas ==
  {<<>>, <<<<"numEmployees", Num(2)>>>>}
  \cup {<<<<"handle", Str(h)>>>> : h \in Handles}

JobUpdateDatas ==
  {<<>>, <<<<"title", Str(<<"T", "2">>)>>>>, <<<<"companyHandle", Str(c2)>>>>,
   <<<<"title", Str(<<"T", "2">>)>>, <<"company_handle", Str(c2)>>>>}
  \cup {<<<<"company_handle", Str(h)>>>> : h \in Handles}
  \cup {<<<<"id", k>>>> : k \in IdKeys}

HandleKeys == {Str(h) : h \in Handles}


EmptyObject == [k \in {} |-> Null]

SomeCompanyFilters ==
  {EmptyObject, [name |-> Str(<<"c">>)], [minEmployees |-> Num(2), maxEmployees |-> Num(1)]}

SomeJobFilters == {EmptyObject, [hasEquity |-> Bool(TRUE)]}

Init ==
  /\ companies = EmptyTable
  /\ jobs = EmptyTable
  /\ nextId = 1
  /\ last = NoCall
  /\ calls = [p \in Procs |-> Idle]
  /\ removed = {}

Next ==
  \/ \E data \in CompanyDatas : CompanyCreate(data)
  \/ \E f \in SomeCompanyFilters : CompanyFindAll(f)
  \/ \E handle \in HandleKeys : CompanyGet(handle)
  \/ \E handle \in HandleKeys, data \in CompanyUpdateDatas : CompanyUpdate(handle, data)
  \/ \E handle \in HandleKeys : CompanyRemove(handle)
  \/ \E data \in JobDatas : JobCreate(data)
  \/ \E f \in SomeJobFilters : JobFindAll(f)
  \/ \E id \in IdKeys : JobGet(id)
  \/ \E id \in IdKeys, data \in JobUpdateDatas : JobUpdate(id, data)
  \/ \E id \in IdKeys : JobRemove(id)

Spec == Init /\ [][Next]_vars

(***************************************************************************)
(* Concurrent callers.  A handler gives way at every await: each db.query  *)
(* is one step of the store, and other callers' statements may run between *)
(* two statements of one handler.  Handlers of a single statement are the  *)
(* atomic actions above.                                                   *)
(***************************************************************************)
Call(op, pc, arg, local, err, queries, res) ==
  [op |-> op, pc |-> pc, arg |-> arg, local |-> local, err |-> err,
   queries |-> queries, res |-> res]

Free(p) == calls[p].pc \in {"idle", "done"}

(* Company.create, first statement: the duplicate check. *)
CompanyCreateCheck(p, data) ==
  /\ Free(p)
  /\ calls' = [calls EXCEPT ![p] =
       Call("Company.create", "insert", data, DuplicateCheck(Get(data, "handle")), "none",
            <<ByHandle(Get(data, "handle"))>>, Undefined)]
  /\ UNCHANGED <<companies, jobs, nextId, last, removed>>

(* Company.create, resumed: throw on a duplicate, else INSERT and return. *)
CompanyCreateInsert(p) ==
  LET c == calls[p]
      row == CompanyInsertRow(c.arg)
  IN /\ c.op = "Company.create"
     /\ c.pc = "insert"
     /\ UNCHANGED <<jobs, nextId, last>>
     /\ IF c.local # {}
        THEN /\ calls' = [calls EXCEPT ![p] =
                  Call(c.op, "done", c.arg, c.local, "BadRequest", c.queries, Undefined)]
             /\ UNCHANGED <<companies, removed>>
        ELSE IF CompanyInsertOk(row)
        THEN /\ companies' = Insert(companies, row.handle.s, row)
             /\ removed' = removed \ {row.handle}
             /\ calls' = [calls EXCEPT ![p] =
                  Call(c.op, "done", c.arg, c.local, "none",
                       Append(c.queries, CompanyInsertQuery(c.arg)), CompanyPublic(row))]
        ELSE /\ UNCHANGED <<companies, removed>>
             /\ calls' = [calls EXCEPT ![p] =
                  Call(c.op, "done", c.arg, c.local, "StoreError",
                       Append(c.queries, CompanyInsertQuery(c.arg)), Undefined)]

(* Company.get, first statement: the company row. *)
CompanyGetCompany(p, handle) ==
  /\ Free(p)
  /\ calls' = [calls EXCEPT ![p] =
       Call("Company.get", "jobs", handle,
            SelectRows(companies, ByHandle(handle).where, ByHandle(handle).params),
            "none", <<ByHandle(handle)>>, Undefined)]
  /\ UNCHANGED <<companies, jobs, nextId, last, removed>>

(* Company.get, resumed: throw when no row came back, else read the jobs. *)
CompanyGetJobs(p) ==
  LET c == calls[p]
  IN /\ c.op = "Company.get"
     /\ c.pc = "jobs"
     /\ UNCHANGED <<companies, jobs, nextId, last, removed>>
     /\ IF c.local = {}
        THEN calls' = [calls EXCEPT ![p] =
               Call(c.op, "done", c.arg, c.local, "NotFound", c.queries, Undefined)]
        ELSE \E r \in c.local : \E jobsRes \in JobsOf(CompanyPublic(r).handle) :
               calls' = [calls EXCEPT ![p] =
                 Call(c.op, "done", c.arg, c.local, "none",
                      Append(c.queries, JobsOfQuery(CompanyPublic(r).handle)),
                      WithJobs(CompanyPublic(r), jobsRes))]

(* Job.get, first statement: the job row. *)
JobGetJob(p, id) ==
  /\ Free(p)
  /\ calls' = [calls EXCEPT ![p] =
       Call("Job.get", "company", id, SelectRows(jobs, ById(id).where, ById(id).params),
            "none", <<ById(id)>>, Undefined)]
  /\ UNCHANGED <<companies, jobs, nextId, last, removed>>

JobGetCompany_Throws(p) ==
  LET c == calls[p]
  IN /\ c.op = "Job.get"
     /\ c.pc = "company"
     /\ UNCHANGED <<companies, jobs, nextId, last, removed>>
     /\ IF c.local = {}
        THEN calls' = [calls EXCEPT ![p] =
               Call(c.op, "done", c.arg, c.local, "NotFound", c.queries, Undefined)]
        ELSE \E r \in c.local : \E company \in CompanyOf(JobPublic(r).companyHandle) :
               calls' = [calls EXCEPT ![p] =
                 IF company = Undefined
                 THEN Call(c.op, "done", c.arg, c.local, "NotFound",
                           Append(c.queries, ByHandle(JobPublic(r).companyHandle)), Undefined)
                 ELSE Call(c.op, "done", c.arg, c.local, "none",
                           Append(c.queries, ByHandle(JobPublic(r).companyHandle)),
                           WithCompany(JobPublic(r), company))]

(* Job.get, resumed: throw when no row came back, else read the company. *)
JobGetCompany(p) ==
  LET c == calls[p]
  IN /\ c.op = "Job.get"
     /\ c.pc = "company"
     /\ UNCHANGED <<companies, jobs, nextId, last, removed>>
     /\ IF c.local = {}
        THEN calls' = [calls EXCEPT ![p] =
               Call(c.op, "done", c.arg, c.local, "NotFound", c.queries, Undefined)]
        ELSE \E r \in c.local : \E company \in CompanyOf(JobPublic(r).companyHandle) :
               calls' = [calls EXCEPT ![p] =
                 Call(c.op, "done", c.arg, c.local, "none",
                      Append(c.queries, ByHandle(JobPublic(r).companyHandle)),
                      WithCompany(JobPublic(r), company))]

NextConc ==
  \/ \E p \in Procs, data \in CompanyDatas : CompanyCreateCheck(p, data)
  \/ \E p \in Procs : CompanyCreateInsert(p)
  \/ \E p \in Procs, handle \in HandleKeys : CompanyGetCompany(p, handle)
  \/ \E p \in Procs : CompanyGetJobs(p)
  \/ \E p \in Procs, id \in IdKeys : JobGetJob(p, id)
  \/ \E p \in Procs : JobGetCompany(p)
  \/ \E data \in JobDatas : JobCreate(data)
  \/ \E handle \in HandleKeys : CompanyRemove(handle)
  \/ \E id \in IdKeys : JobRemove(id)

SpecConc == Init /\ [][NextConc]_vars

(***************************************************************************)
(* Properties.                                                             *)
(***************************************************************************)
IsFindAll == last.op \in {"Company.findAll", "Job.findAll"} /\ last.err = "none"

(* How many predicates of the WHERE clause compare col with op. *)
PredsFor(q, col, op) ==
  Cardinality({i \in 1..Len(q.where) : q.where[i].col = col /\ q.where[i].op = op})

HasKey(obj, k) == IF k \in DOMAIN obj THEN 1 ELSE 0

(* C1: Company.findAll with both employee bounds present and               *)
(* minEmployees > maxEmployees fails with BadRequest and issues no query;  *)
(* with minEmployees <= maxEmployees, or a bound absent, it raises no      *)
(* BadRequest.                                                             *)
C1_RangeRejectedBeforeQuery ==
  last.op = "Company.findAll" =>
    LET mn == Get(last.arg, "minEmployees")
        mx == Get(last.arg, "maxEmployees")
    IN /\ (mn.t = "number" /\ mx.t = "number" /\ mn.n > mx.n)
            => (last.err = "BadRequest" /\ last.queries = <<>>)
       /\ (mn.t = "number" /\ mx.t = "number" /\ mn.n <= mx.n) => last.err = "none"
       /\ (mn = Undefined \/ mx = Undefined) => last.err = "none"

C1_Witness ==
  /\ last.op = "Company.findAll"
  /\ last.err = "BadRequest"
  /\ Get(last.arg, "minEmployees").t = "number"
  /\ Get(last.arg, "maxEmployees").t = "number"

(* C3: the WHERE clause findAll builds holds exactly one predicate for    *)
(* each of the keys minEmployees, maxEmployees, name (title, minSalary for *)
(* jobs) the filter object contains, whatever the value, none for a key it *)
(* lacks, and no WHERE clause is emitted when there is no predicate.       *)
C3_OnePredicatePerPresentKey ==
  /\ (last.op = "Company.findAll" /\ last.err = "none") =>
       LET q == last.queries[1]
       IN /\ PredsFor(q, "num_employees", ">=") = HasKey(last.arg, "minEmployees")
          /\ PredsFor(q, "num_employees", "<=") = HasKey(last.arg, "maxEmployees")
          /\ PredsFor(q, "name", "ILIKE") = HasKey(last.arg, "name")
          /\ q.hasWhere = (Len(q.where) > 0)
  /\ (last.op = "Job.findAll" /\ last.err = "none") =>
       LET q == last.queries[1]
       IN /\ PredsFor(q, "title", "ILIKE") = HasKey(last.arg, "title")
          /\ PredsFor(q, "salary", ">=") = HasKey(last.arg, "minSalary")
          /\ q.hasWhere = (Len(q.where) > 0)

RowIds(rows) == {rows[i].id.n : i \in 1..Len(rows)}

(* C4: Job.findAll with hasEquity exactly true and no other filter        *)
(* returns exactly the stored jobs whose equity is greater than 0; with    *)
(* any other value of hasEquity it returns every stored job, as the call   *)
(* without the key does; hasEquity never binds a positional parameter.     *)
C4_HasEquityOnlyWhenTrue ==
  last.op = "Job.findAll" =>
    /\ Len(last.queries[1].params)
         = HasKey(last.arg, "title") + HasKey(last.arg, "minSalary")
    /\ DOMAIN last.arg \subseteq {"hasEquity"} =>
         /\ Len(last.res) = Cardinality(RowIds(last.res))
         /\ RowIds(last.res) =
              IF Get(last.arg, "hasEquity") = Bool(TRUE)
              THEN {k \in DOMAIN jobs : jobs[k].equity.t = "number" /\ jobs[k].equity.n > 0}
              ELSE DOMAIN jobs

C4_Witness ==
  /\ last.op = "Job.findAll"
  /\ last.arg = [hasEquity |-> Bool(TRUE)]
  /\ Len(last.res) > 0
  /\ Len(last.res) < Cardinality(DOMAIN jobs)

Binds(p) == p.col # "equity"

(* The value the filter object gives the key a predicate stands for. *)
BoundValue(filters, p) ==
  CASE p.col = "num_employees" /\ p.op = ">=" -> Get(filters, "minEmployees")
    [] p.col = "num_employees" /\ p.op = "<=" -> Get(filters, "maxEmployees")
    [] p.col = "name" -> Wrap(Get(filters, "name"))
    [] p.col = "title" -> Wrap(Get(filters, "title"))
    [] p.col = "salary" -> Get(filters, "minSalary")

(* C5: the placeholders of the WHERE clause findAll emits are $1..$n in   *)
(* the order of the predicates, n is the length of the parameter array     *)
(* handed to the store, and the value bound to $i is the value of the      *)
(* filter key whose predicate uses $i (as %value% for name and title).     *)
C5_PlaceholdersMatchParams ==
  IsFindAll =>
    LET q == last.queries[1]
        bound == SelectSeq(q.where, Binds)
    IN /\ Len(bound) = Len(q.params)
       /\ \A i \in 1..Len(bound) :
            /\ bound[i].ph = i
            /\ q.params[i] = BoundValue(last.arg, bound[i])

C5_Witness ==
  /\ IsFindAll
  /\ Len(last.queries[1].params) = 3
  /\ last.queries[1].params[3] = Str(<<"%", "c", "%">>)

(* C2: Job.create with data { title, salary, equity, companyHandle }      *)
(* naming a stored company stores a job owned by data.companyHandle and    *)
(* returns a row whose companyHandle is data.companyHandle.                *)
C2_CreateKeepsCompanyHandle ==
  (/\ last.op = "Job.create"
   /\ "companyHandle" \in DOMAIN last.arg
   /\ last.arg.companyHandle.s \in DOMAIN companies)
  => /\ last.err = "none"
     /\ last.res.companyHandle = last.arg.companyHandle
     /\ \E k \in DOMAIN jobs :
          jobs[k].id = last.res.id /\ jobs[k].company_handle = last.arg.companyHandle

Inserts(queries) == {i \in 1..Len(queries) : queries[i].verb = "INSERT"}

(* C6: run one after another, Company.create with a handle a stored       *)
(* company holds fails with BadRequest, issues no INSERT and leaves the    *)
(* store as it was; with a handle not in the store it inserts exactly that *)
(* one company row and returns it.  Every stored company is filed under    *)
(* its own handle.                                                         *)
C6_CreateRejectsDuplicate ==
  [][last'.op = "Company.create" =>
       LET h == last'.arg.handle.s
       IN /\ IF h \in DOMAIN companies
             THEN /\ last'.err = "BadRequest"
                  /\ Inserts(last'.queries) = {}
                  /\ companies' = companies
             ELSE /\ last'.err = "none"
                  /\ Cardinality(Inserts(last'.queries)) = 1
                  /\ DOMAIN companies' = DOMAIN companies \cup {h}
                  /\ \A k \in DOMAIN companies : companies'[k] = companies[k]
                  /\ last'.res = CompanyPublic(companies'[h])
                  /\ last'.res.handle = last'.arg.handle
                  /\ last'.res.name = last'.arg.name
          /\ jobs' = jobs
          /\ \A k \in DOMAIN companies' : companies'[k].handle = Str(k)]_vars

C6_Witness ==
  /\ last.op = "Company.create"
  /\ last.err = "BadRequest"
  /\ last.arg.handle.s \in DOMAIN companies

(* C8: no operation changes the company a stored job belongs to: a job    *)
(* stored before and after a step has the same company_handle.             *)
C8_JobCompanyNeverChanges ==
  [][\A k \in DOMAIN jobs \cap DOMAIN jobs' :
       jobs'[k].company_handle = jobs[k].company_handle]_vars

(* C7: remove on a key in the store succeeds, returns no payload and       *)
(* deletes the row; remove on a key not in the store fails with NotFound   *)
(* and leaves the store as it was; and a get on a key that was removed and *)
(* not created again since fails with NotFound.                            *)
C7_RemovedKeyStaysNotFound ==
  [][/\ last'.op = "Company.remove" =>
          IF last'.arg.s \in DOMAIN companies
          THEN /\ last'.err = "none"
               /\ last'.res = Undefined
               /\ last'.arg.s \notin DOMAIN companies'
          ELSE /\ last'.err = "NotFound"
               /\ companies' = companies
               /\ jobs' = jobs
     /\ last'.op = "Job.remove" =>
          IF last'.arg.n \in DOMAIN jobs
          THEN /\ last'.err = "none"
               /\ last'.res = Undefined
               /\ last'.arg.n \notin DOMAIN jobs'
          ELSE /\ last'.err = "NotFound"
               /\ companies' = companies
               /\ jobs' = jobs
     /\ (last'.op \in {"Company.get", "Job.get"} /\ last'.arg \in removed')
          => last'.err = "NotFound"]_vars

IsGet(c) == c.op \in {"Company.get", "Job.get"}

(* C9: a get whose first read found its primary row completes with a      *)
(* result and no error, whatever was removed between its two reads.        *)
C9_GetCompletesOncePrimaryFound ==
  \A p \in Procs :
    (IsGet(calls[p]) /\ calls[p].pc = "done" /\ calls[p].local # {})
      => /\ calls[p].err = "none"
         /\ Len(calls[p].queries) = 2
         /\ \E r \in calls[p].local :
              IF calls[p].op = "Job.get"
              THEN calls[p].res.id = r.id
              ELSE calls[p].res.handle = r.handle

C9_Witness ==
  \E p \in Procs :
    /\ calls[p].op = "Job.get"
    /\ calls[p].pc = "done"
    /\ calls[p].err = "none"
    /\ calls[p].res.company = Undefined

(* C10: no Company.create issues its INSERT for a handle that is in the   *)
(* store when the INSERT runs; of two overlapping creates of one handle    *)
(* the second fails with BadRequest.                                       *)
C10_NoInsertOfStoredHandle ==
  \A p \in Procs :
    (calls[p].op = "Company.create" /\ calls[p].pc = "done")
      => /\ calls[p].err \in {"none", "BadRequest"}
         /\ Inserts(calls[p].queries) # {} => calls[p].err = "none"

====
